---- MODULE Spec2Model ----
(***************************************************************************)
(* State-machine model of the movie recommender: the rating table built by *)
(* DataLoader, the CollaborativeFiltering model (cosine similarities kept   *)
(* in two lazily filled attributes, user-based and item-based top-N), the   *)
(* Evaluator (per-user train/test split driven by numpy's global random     *)
(* generator, batched prediction, RMSE) and the /recommendations handler.   *)
(*                                                                          *)
(* DataFrames are Python objects: a variable that holds a table holds a     *)
(* reference, and two attributes may name the same object.  The model keeps *)
(* every table in `heap`, addressed by reference.                           *)
(*                                                                          *)
(* Arithmetic.  Ratings are whole numbers of rating steps.  A cosine        *)
(* similarity is kept in fixed point, as a whole number of 1/SimScale       *)
(* units.  A predicted rating is a quotient                                 *)
(* w / (s + 1e-8); it is kept as the pair (w, s) and compared exactly, with *)
(* 1e-8 smaller than every difference the fixed-point values can show.      *)
(***************************************************************************)
EXTENDS Integers, Sequences, FiniteSets, TLC

\* ------------------------------------------------------------------ bounds
NumUsers == 2
NumItems == 3
MaxRating == 2
NumEvaluators == 2
MaxSplitCalls == 2
RngBits == 4
RngInitMax == 1
SimScale == 100

Users == 1 .. NumUsers
Items == 1 .. NumItems
EvIds == 1 .. NumEvaluators
RngMod == 2 ^ RngBits

\* Whole tables: the rows are the users, the columns the items, 0 is "unrated".
Tables == [Users -> [Items -> 0 .. MaxRating]]
\* test_ratio as an exact fraction <<numerator, denominator>>; 1/5 is the default.
TestRatios == {<<1, 5>>, <<2, 3>>}
\* random_state values; 42 is the default.
Seeds == {42, 7}

VARIABLES
    heap,        \* reference -> DataFrame contents (<<>> while not allocated)
    evs,         \* the Evaluator objects, by identity
    split_log,   \* per Evaluator: number of train_test_split calls, last outcome
    np_random,   \* numpy's process-wide generator state
    cf,          \* the CollaborativeFiltering object
    out          \* what the last call returned or raised

vars == <<heap, evs, split_log, np_random, cf, out>>

None == <<>>
\* No result is held: the caller is between two calls.
NoResult == [op |-> "idle", kind |-> "ok", args |-> <<>>, value |-> None]
NoneRef == <<"None", 0>>
\* The table the caller owns (app.py: user_item_matrix = loader.get_user_item_matrix()).
Src == <<"src", 0>>
UimRef(e) == <<"uim", e>>
TrainRef(e) == <<"train", e>>
TestRef(e) == <<"test", e>>
Refs == {Src} \cup {UimRef(e) : e \in EvIds} \cup {TrainRef(e) : e \in EvIds}
            \cup {TestRef(e) : e \in EvIds}

ZeroTable == [u \in Users |-> [i \in Items |-> 0]]

\* ------------------------------------------------------------ arithmetic
RECURSIVE SumOver(_, _)
\* Sum of f[k] over the finite set S of keys.
SumOver(f, S) ==
    IF S = {} THEN 0
    ELSE LET k == CHOOSE x \in S : TRUE IN f[k] + SumOver(f, S \ {k})

Max(a, b) == IF a >= b THEN a ELSE b
Min(a, b) == IF a <= b THEN a ELSE b

\* ------------------------------------------------------------ numpy.random
\* Variant of Reseed: the generator goes on from where it is.
NoReseed(state, seed) == state
\* np.random.seed(s): the generator state becomes a function of s alone.
Reseed(state, seed) == seed % RngMod

\* One step of the generator (a full-period congruential generator stands for
\* the Mersenne twister: what matters is that each draw is a function of the
\* state and moves it).
RngStep(state) == (5 * state + 3) % RngMod

RECURSIVE Choice(_, _, _)
\* np.random.choice(a, size=k, replace=False) on the sequence `a`: k distinct
\* elements, each picked by one draw among those left.  Gives the chosen set
\* and the generator state afterwards.  The caller checks k <= Len(a).
Choice(state, a, k) ==
    IF k = 0 THEN [items |-> {}, state |-> state]
    ELSE LET s1   == RngStep(state)
             idx  == (s1 % Len(a)) + 1
             rest == [j \in 1 .. Len(a) - 1 |-> IF j < idx THEN a[j] ELSE a[j + 1]]
             more == Choice(s1, rest, k - 1)
         IN [items |-> {a[idx]} \cup more.items, state |-> more.state]

\* ------------------------------------------------------------ Evaluator
NoEvaluator ==
    [user_item_matrix |-> NoneRef, train_matrix |-> NoneRef, test_matrix |-> NoneRef,
     test_ratio |-> <<0, 1>>, random_state |-> 0]

Built(e) == evs[e].user_item_matrix # NoneRef

\* Variant of InitTrainRef: the attribute names the caller's object.
AliasTrainRef(e, arg) == arg
\* self.train_matrix = self.user_item_matrix.copy(): a new object.
InitTrainRef(e, arg) == TrainRef(e)

\* Evaluator(user_item_matrix, test_ratio, random_state).  Evaluators are
\* numbered in the order they are constructed.
EvaluatorInit(e, arg, ratio, seed) ==
    /\ out = NoResult
    /\ ~Built(e)
    /\ IF e = 1 THEN TRUE ELSE Built(e - 1)
    /\ heap' = [heap EXCEPT ![UimRef(e)] = heap[arg],
                            ![InitTrainRef(e, arg)] = heap[arg],
                            ![TestRef(e)] = ZeroTable]
    /\ evs' = [evs EXCEPT ![e] =
                 [user_item_matrix |-> UimRef(e),
                  train_matrix |-> InitTrainRef(e, arg),
                  test_matrix |-> TestRef(e),
                  test_ratio |-> ratio,
                  random_state |-> seed]]
    /\ out' = [op |-> "Evaluator", kind |-> "ok", args |-> <<e, ratio, seed>>,
               value |-> None]
    /\ UNCHANGED <<split_log, np_random, cf>>

\* rated_items: the columns of the row with a rating > 0, in column order.
RECURSIVE RatedFrom(_, _)
RatedFrom(row, i) ==
    IF i > NumItems THEN <<>>
    ELSE (IF row[i] > 0 THEN <<i>> ELSE <<>>) \o RatedFrom(row, i + 1)
RatedItems(row) == RatedFrom(row, 1)

\* n_test = max(1, int(len(rated_items) * self.test_ratio))
NTest(n_rated, ratio) == Max(1, (n_rated * ratio[1]) \div ratio[2])

\* Variant of MaskTrainRow: the row is left as it is.
KeepTrainRow(row, test_items) == row
\* self.train_matrix.loc[user, test_items] = 0.0
MaskTrainRow(row, test_items) ==
    [i \in Items |-> IF i \in test_items THEN 0 ELSE row[i]]

\* self.test_matrix.loc[user, test_items] = self.user_item_matrix.loc[user, test_items]
FillTestRow(row, orig, test_items) ==
    [i \in Items |-> IF i \in test_items THEN orig[i] ELSE row[i]]

RECURSIVE SplitLoop(_, _, _, _, _, _)
\* The loop of train_test_split from user u on.  np.random.choice raises
\* ValueError when asked for one item of an empty rated_items; the rows of the
\* users before that one stay written.
SplitLoop(uim, train, test, state, ratio, u) ==
    IF u > NumUsers THEN [train |-> train, test |-> test, state |-> state, kind |-> "ok"]
    ELSE LET rated  == RatedItems(uim[u])
             n_test == NTest(Len(rated), ratio)
         IN IF n_test > Len(rated)
            THEN [train |-> train, test |-> test, state |-> state, kind |-> "ValueError"]
            ELSE LET c == Choice(state, rated, n_test)
                 IN SplitLoop(uim,
                              [train EXCEPT ![u] = MaskTrainRow(train[u], c.items)],
                              [test EXCEPT ![u] = FillTestRow(test[u], uim[u], c.items)],
                              c.state, ratio, u + 1)

\* Evaluator.train_test_split()
TrainTestSplit(e) ==
    /\ out = NoResult
    /\ Built(e)
    /\ split_log[e].calls < MaxSplitCalls
    /\ LET ev == evs[e]
           r  == SplitLoop(heap[ev.user_item_matrix], heap[ev.train_matrix],
                           heap[ev.test_matrix],
                           Reseed(np_random, ev.random_state), ev.test_ratio, 1)
       IN /\ heap' = [[heap EXCEPT ![ev.train_matrix] = r.train]
                         EXCEPT ![ev.test_matrix] = r.test]
          /\ np_random' = r.state
          /\ split_log' = [split_log EXCEPT ![e] =
                             [calls |-> @.calls + 1, kind |-> r.kind]]
          /\ out' = [op |-> "train_test_split", kind |-> r.kind, args |-> <<e>>,
                     value |-> IF r.kind = "ok"
                               THEN <<ev.train_matrix, ev.test_matrix>> ELSE None]
    /\ UNCHANGED <<evs, cf>>

\* ------------------------------------------------ CollaborativeFiltering
\* Largest r with r * r <= n.
ISqrt(n) == CHOOSE r \in 0 .. n : r * r <= n /\ (r + 1) * (r + 1) > n

\* sklearn's cosine_similarity of two vectors over the keys K: each vector
\* is divided by its norm (a zero vector is left as it is), then the dot
\* product is taken.  In 1/SimScale units, the norm product rounded down to
\* a whole number and the quotient rounded down.
Cosine(x, y, K) ==
    LET dot == SumOver([k \in K |-> x[k] * y[k]], K)
        nx  == SumOver([k \in K |-> x[k] * x[k]], K)
        ny  == SumOver([k \in K |-> y[k] * y[k]], K)
    IN IF nx = 0 \/ ny = 0 THEN 0 ELSE (dot * SimScale) \div ISqrt(nx * ny)

\* compute_user_similarity: cosine_similarity(self.user_item_matrix)
ComputeUserSimilarity(t) ==
    [a \in Users |-> [b \in Users |-> Cosine(t[a], t[b], Items)]]

\* compute_item_similarity: cosine_similarity(self.user_item_matrix.T)
ComputeItemSimilarity(t) ==
    [i \in Items |-> [j \in Items |->
        Cosine([u \in Users |-> t[u][i]], [u \in Users |-> t[u][j]], Users)]]

\* Variant of LazyUserSimilarity: computed on every call.
EagerUserSimilarity(c, h) == ComputeUserSimilarity(h[c.user_item_matrix])
\* if self.user_similarity is None: self.compute_user_similarity()
LazyUserSimilarity(c, h) ==
    IF c.user_similarity = None
    THEN ComputeUserSimilarity(h[c.user_item_matrix])
    ELSE c.user_similarity

\* if self.item_similarity is None: self.compute_item_similarity()
LazyItemSimilarity(c, h) ==
    IF c.item_similarity = None
    THEN ComputeItemSimilarity(h[c.user_item_matrix])
    ELSE c.item_similarity

\* The float w / (s + 1e-8).  With w = 0 it is 0.0 whatever s is.
Quot(w, s) == IF w = 0 THEN [w |-> 0, s |-> 0] ELSE [w |-> w, s |-> s]
Zero == Quot(0, 0)

\* p > q as floats: the sign of p.w * (q.s + 1e-8) - q.w * (p.s + 1e-8).
Greater(p, q) ==
    LET d == p.w * q.s - q.w * p.s
    IN d > 0 \/ (d = 0 /\ p.w > q.w)

\* recommend_user_based, the predicted_ratings Series before the filter:
\* the column user_id of the similarity matrix without its own entry,
\* reindexed on the rows with 0 filled in, weighs the rows of the table.
UserBasedPredicted(t, usim, user_id) ==
    LET similar_users_aligned ==
            [u \in Users |-> IF u = user_id THEN 0 ELSE usim[u][user_id]]
        similarity_sums == SumOver(similar_users_aligned, Users)
    IN [i \in Items |->
          Quot(SumOver([u \in Users |-> t[u][i] * similar_users_aligned[u]], Users),
               similarity_sums)]

\* recommend_item_based, the pred_ratings Series before the filter.
ItemBasedPredicted(t, isim, user_id) ==
    [j \in Items |->
       Quot(SumOver([i \in Items |-> isim[j][i] * t[user_id][i]], Items),
            SumOver([i \in Items |-> IF isim[j][i] < 0 THEN -isim[j][i] ELSE isim[j][i]],
                    Items))]

\* Variant of Unrated: every entry is kept.
KeepAll(user_ratings, i) == TRUE
\* predicted_ratings[user_ratings == 0]: the entries kept.
Unrated(user_ratings, i) == user_ratings[i] = 0

\* Variant of SortValuesDescending: the orders of sort_values(ascending=True).
SortValuesAscending(pred, cands) ==
    {s \in [1 .. Cardinality(cands) -> cands] :
        /\ \A a, b \in DOMAIN s : a # b => s[a] # s[b]
        /\ \A a \in DOMAIN s : a + 1 \in DOMAIN s => ~Greater(pred[s[a]], pred[s[a + 1]])}
\* Series.sort_values(ascending=False): pandas sorts with numpy's quicksort,
\* which is not stable, so entries that compare equal may come out in any
\* order.  The set of the orders the call can return.
SortValuesDescending(pred, cands) ==
    {s \in [1 .. Cardinality(cands) -> cands] :
        /\ \A a, b \in DOMAIN s : a # b => s[a] # s[b]
        /\ \A a \in DOMAIN s : a + 1 \in DOMAIN s => ~Greater(pred[s[a + 1]], pred[s[a]])}

\* .head(top_n), then list(top_movies.items())
HeadItems(pred, order, top_n) ==
    [k \in 1 .. Min(top_n, Len(order)) |-> <<order[k], pred[order[k]]>>]

\* The lists a recommend_* call can return from its predicted Series.
TopMovies(pred, user_ratings, top_n) ==
    {HeadItems(pred, order, top_n) :
        order \in SortValuesDescending(pred, {i \in Items : Unrated(user_ratings, i)})}

ModelBuilt == cf.user_item_matrix # NoneRef

\* CollaborativeFiltering(user_item_matrix): the attribute names the caller's object.
CFInit(ref) ==
    /\ out = NoResult
    /\ ~ModelBuilt
    /\ cf' = [user_item_matrix |-> ref, user_similarity |-> None,
              item_similarity |-> None]
    /\ out' = [op |-> "CollaborativeFiltering", kind |-> "ok", args |-> <<ref>>,
               value |-> None]
    /\ UNCHANGED <<heap, evs, split_log, np_random>>

compute_user_similarity ==
    /\ out = NoResult
    /\ ModelBuilt
    /\ cf' = [cf EXCEPT !.user_similarity = ComputeUserSimilarity(heap[cf.user_item_matrix])]
    /\ out' = [op |-> "compute_user_similarity", kind |-> "ok", args |-> <<>>,
               value |-> None]
    /\ UNCHANGED <<heap, evs, split_log, np_random>>

compute_item_similarity ==
    /\ out = NoResult
    /\ ModelBuilt
    /\ cf' = [cf EXCEPT !.item_similarity = ComputeItemSimilarity(heap[cf.user_item_matrix])]
    /\ out' = [op |-> "compute_item_similarity", kind |-> "ok", args |-> <<>>,
               value |-> None]
    /\ UNCHANGED <<heap, evs, split_log, np_random>>

\* recommend_user_based(user_id, top_n): the similarity is filled in first,
\* then self.user_item_matrix.loc[user_id] raises KeyError for an unknown user.
recommend_user_based(user_id, top_n) ==
    /\ out = NoResult
    /\ ModelBuilt
    /\ LET usim == LazyUserSimilarity(cf, heap)
           t    == heap[cf.user_item_matrix]
       IN /\ cf' = [cf EXCEPT !.user_similarity = usim]
          /\ IF user_id \notin Users
             THEN out' = [op |-> "recommend_user_based", kind |-> "KeyError",
                          args |-> <<user_id, top_n>>, value |-> None]
             ELSE \E recs \in TopMovies(UserBasedPredicted(t, usim, user_id),
                                        t[user_id], top_n) :
                      out' = [op |-> "recommend_user_based", kind |-> "ok",
                              args |-> <<user_id, top_n>>, value |-> recs]
    /\ UNCHANGED <<heap, evs, split_log, np_random>>

\* recommend_item_based(user_id, top_n)
recommend_item_based(user_id, top_n) ==
    /\ out = NoResult
    /\ ModelBuilt
    /\ LET isim == LazyItemSimilarity(cf, heap)
           t    == heap[cf.user_item_matrix]
       IN /\ cf' = [cf EXCEPT !.item_similarity = isim]
          /\ IF user_id \notin Users
             THEN out' = [op |-> "recommend_item_based", kind |-> "KeyError",
                          args |-> <<user_id, top_n>>, value |-> None]
             ELSE \E recs \in TopMovies(ItemBasedPredicted(t, isim, user_id),
                                        t[user_id], top_n) :
                      out' = [op |-> "recommend_item_based", kind |-> "ok",
                              args |-> <<user_id, top_n>>, value |-> recs]
    /\ UNCHANGED <<heap, evs, split_log, np_random>>

\* ------------------------------------------------ Evaluator.predict_all
\* Variant of ZeroDiagonal: the diagonal is left in.
KeepDiagonal(usim) == usim
\* similarity_matrix = cf_model.user_similarity.copy()
\* np.fill_diagonal(similarity_matrix.values, 0): written on the copy.
ZeroDiagonal(usim) ==
    [a \in Users |-> [b \in Users |-> IF a = b THEN 0 ELSE usim[a][b]]]

\* method == 'user': train.T.dot(similarity_matrix.T) / sim_sums, transposed,
\* then .where(train == 0, 0.0).  sim_sums are the row sums plus 1e-8.
PredictAllUser(train, usim) ==
    LET similarity_matrix == ZeroDiagonal(usim)
        sim_sums == [v \in Users |-> SumOver(similarity_matrix[v], Users)]
    IN [v \in Users |-> [i \in Items |->
          IF train[v][i] = 0
          THEN Quot(SumOver([u \in Users |-> train[u][i] * similarity_matrix[v][u]], Users),
                    sim_sums[v])
          ELSE Zero]]

\* method == 'item': item_similarity.dot(train.T) / (abs(item_similarity).sum(axis=1) + 1e-8),
\* transposed, then the same mask.
PredictAllItem(train, isim) ==
    [v \in Users |-> [j \in Items |->
       IF train[v][j] = 0
       THEN Quot(SumOver([i \in Items |-> isim[j][i] * train[v][i]], Items),
                 SumOver([i \in Items |-> IF isim[j][i] < 0 THEN -isim[j][i] ELSE isim[j][i]],
                         Items))
       ELSE Zero]]

Methods == {"user", "item", "other"}

\* Evaluator.predict_all(cf_model, method)
predict_all(e, method) ==
    /\ out = NoResult
    /\ Built(e)
    /\ ModelBuilt
    /\ LET train == heap[evs[e].train_matrix]
       IN CASE method = "user" ->
                 LET usim == LazyUserSimilarity(cf, heap)
                 IN /\ cf' = [cf EXCEPT !.user_similarity = usim]
                    /\ out' = [op |-> "predict_all", kind |-> "ok",
                               args |-> <<e, method>>,
                               value |-> PredictAllUser(train, usim)]
            [] method = "item" ->
                 LET isim == LazyItemSimilarity(cf, heap)
                 IN /\ cf' = [cf EXCEPT !.item_similarity = isim]
                    /\ out' = [op |-> "predict_all", kind |-> "ok",
                               args |-> <<e, method>>,
                               value |-> PredictAllItem(train, isim)]
            [] OTHER ->
                 /\ cf' = cf
                 /\ out' = [op |-> "predict_all", kind |-> "ValueError",
                            args |-> <<e, method>>, value |-> None]
    /\ UNCHANGED <<heap, evs, split_log, np_random>>

\* ------------------------------------------------ Evaluator.compute_rmse
\* mask = self.test_matrix > 0
Mask(test) == {<<u, i>> \in Users \X Items : test[u][i] > 0}

\* y_true = self.test_matrix[mask] and y_pred = predictions[mask] keep the
\* whole shape, with NaN in every cell outside the mask; sklearn's
\* mean_squared_error validates its inputs and raises ValueError on a NaN.
\* With no cell outside the mask the result is the root of the mean of the
\* squared differences, given here by the (true, predicted) pairs it is taken over.
ComputeRmse(test, predictions) ==
    IF Mask(test) # Users \X Items
    THEN [kind |-> "ValueError", value |-> None]
    ELSE [kind |-> "ok",
          value |-> {<<c, test[c[1]][c[2]], predictions[c[1]][c[2]]>> : c \in Mask(test)}]

\* Evaluator.compute_rmse(predictions), on the frame predict_all just returned
\* (evaluation.py: rmse_user = evaluator.compute_rmse(predictions_user)).
compute_rmse(e) ==
    /\ Built(e)
    /\ out.op = "predict_all"
    /\ out.kind = "ok"
    /\ LET r == ComputeRmse(heap[evs[e].test_matrix], out.value)
       IN out' = [op |-> "compute_rmse", kind |-> r.kind, args |-> <<e>>,
                  value |-> r.value]
    /\ UNCHANGED <<heap, evs, split_log, np_random, cf>>

\* ------------------------------------------------ app.py
\* loader.movies['genres'], lower-cased: the genre lists of the items.
MovieGenres == [i \in Items |-> IF i % 2 = 1 THEN {"drama"} ELSE {"comedy", "drama"}]
GenreFilters == {"", "comedy"}

\* The statements of recommendations() after the try block, for a user of the
\* table: the rated-movie filter, the genre filter, recs[:top_n].
AfterTry(recs, t, user_id, top_n, genre_filter) ==
    LET NotRated(r) == ~(t[user_id][r[1]] > 0)
        InGenre(r)  == genre_filter = "" \/ genre_filter \in MovieGenres[r[1]]
        kept        == SelectSeq(SelectSeq(recs, NotRated), InGenre)
    IN SubSeq(kept, 1, Min(top_n, Len(kept)))

\* cf_model of app.py: built on user_item_matrix with both similarities
\* computed when the module is loaded.
AppLoaded ==
    /\ cf.user_item_matrix = Src
    /\ cf.user_similarity # None
    /\ cf.item_similarity # None

\* The try block of recommendations(): what recs can be after it.  The model
\* is asked for shape[1] items; its KeyError is caught and recs = [].
TryRecommend(t, user_id, method) ==
    IF user_id \notin Users THEN {<<>>}
    ELSE TopMovies(IF method = "user"
                   THEN UserBasedPredicted(t, cf.user_similarity, user_id)
                   ELSE ItemBasedPredicted(t, cf.item_similarity, user_id),
                   t[user_id], NumItems)

\* The /recommendations view.  After the try block,
\* user_item_matrix.loc[user_id] is evaluated outside of it and raises
\* KeyError for a user that is not in the table.  The value is the list of
\* (movie_id, rating) pairs the template is given a title for.
recommendations(user_id, method, top_n, genre_filter) ==
    /\ out = NoResult
    /\ AppLoaded
    /\ LET t    == heap[Src]
           args == <<user_id, method, top_n, genre_filter>>
       IN \E recs \in TryRecommend(t, user_id, method) :
             out' = IF user_id \notin Users
                    THEN [op |-> "recommendations", kind |-> "KeyError", args |-> args,
                          value |-> None]
                    ELSE [op |-> "recommendations", kind |-> "ok", args |-> args,
                          value |-> AfterTry(recs, t, user_id, top_n, genre_filter)]
    /\ UNCHANGED <<heap, evs, split_log, np_random, cf>>

\* ------------------------------------------------------------ the machine
NoModel == [user_item_matrix |-> NoneRef, user_similarity |-> None,
            item_similarity |-> None]

Init ==
    /\ \E t \in Tables : heap = [r \in Refs |-> IF r = Src THEN t ELSE None]
    /\ evs = [e \in EvIds |-> NoEvaluator]
    /\ split_log = [e \in EvIds |-> [calls |-> 0, kind |-> "none"]]
    /\ np_random \in 0 .. RngInitMax
    /\ cf = NoModel
    /\ out = NoResult

\* The caller lets go of the result of its last call.  Calls are made one at
\* a time: each starts with no result held, except compute_rmse, which is
\* handed the frame predict_all returned.
Forget ==
    /\ out # NoResult
    /\ out' = NoResult
    /\ UNCHANGED <<heap, evs, split_log, np_random, cf>>

NewEvaluator == \E e \in EvIds, ratio \in TestRatios, seed \in Seeds :
                    EvaluatorInit(e, Src, ratio, seed)
Split == \E e \in EvIds : TrainTestSplit(e)

NewModel == \E ref \in {Src} \cup {evs[e].train_matrix : e \in {x \in EvIds : Built(x)}} :
                CFInit(ref)
UserIds == 1 .. NumUsers + 1
TopNs == 0 .. NumItems
RecommendUser == \E user_id \in UserIds, top_n \in TopNs : recommend_user_based(user_id, top_n)
RecommendItem == \E user_id \in UserIds, top_n \in TopNs : recommend_item_based(user_id, top_n)
PredictAll == \E e \in EvIds, method \in Methods : predict_all(e, method)
Rmse == \E e \in EvIds : compute_rmse(e)
Recommendations == \E user_id \in UserIds, method \in {"user", "item"}, top_n \in TopNs,
                      genre_filter \in GenreFilters :
                      recommendations(user_id, method, top_n, genre_filter)

\* The Evaluator alone: construction and splits of several Evaluators.
NextSplit == NewEvaluator \/ Split \/ Forget
SpecSplit == Init /\ [][NextSplit]_vars

\* The recommender and the web handler on the caller's table.
NextRec == CFInit(Src) \/ compute_user_similarity \/ compute_item_similarity
              \/ RecommendUser \/ RecommendItem \/ Recommendations \/ Forget
\* Nothing here draws a random number: one generator state stands for all.
InitRec == Init /\ np_random = 0
SpecRec == InitRec /\ [][NextRec]_vars

\* The evaluation walkthrough of evaluation.py: one Evaluator with the default
\* arguments, a model on the caller's table or on the Evaluator's train table,
\* and every call of both, in any order.
WalkthroughEvaluator == EvaluatorInit(1, Src, <<1, 5>>, 42)
WalkthroughSplit == TrainTestSplit(1)
RecommendUserAll == \E user_id \in UserIds : recommend_user_based(user_id, NumItems)
RecommendItemAll == \E user_id \in UserIds : recommend_item_based(user_id, NumItems)
WalkthroughPredict == \E method \in Methods : predict_all(1, method)
WalkthroughRmse == compute_rmse(1)

Next == WalkthroughEvaluator \/ WalkthroughSplit \/ NewModel
           \/ compute_user_similarity \/ compute_item_similarity
           \/ RecommendUserAll \/ RecommendItemAll
           \/ WalkthroughPredict \/ WalkthroughRmse \/ Forget
Spec == Init /\ [][Next]_vars

\* ------------------------------------------------------------ properties
TrainOf(e) == heap[evs[e].train_matrix]
TestOf(e) == heap[evs[e].test_matrix]
CountNonzero(row) == Cardinality({i \in Items : row[i] # 0})
IsRecommend == out.op \in {"recommend_user_based", "recommend_item_based"} /\ out.kind = "ok"
\* The predicted Series the call held in `out` ranked, recomputed from the
\* state the call left.
PredictedOfOut ==
    IF out.op = "recommend_user_based"
    THEN UserBasedPredicted(heap[cf.user_item_matrix], cf.user_similarity, out.args[1])
    ELSE ItemBasedPredicted(heap[cf.user_item_matrix], cf.item_similarity, out.args[1])
ReturnedItems == {out.value[k][1] : k \in DOMAIN out.value}

\* C1: after a train_test_split that completed, every cell that is nonzero
\* in the original table has its rating in exactly one of train and test and 0
\* in the other, every cell that is 0 in the original is 0 in both, and per
\* user the nonzero counts of train and test add up to the original's.
C1_SplitPartitions ==
    \A e \in EvIds : split_log[e].kind = "ok" =>
        \A u \in Users :
            /\ \A i \in Items :
                 LET o == heap[Src][u][i]
                     a == TrainOf(e)[u][i]
                     b == TestOf(e)[u][i]
                 IN IF o = 0 THEN a = 0 /\ b = 0
                    ELSE (a = o /\ b = 0) \/ (a = 0 /\ b = o)
            /\ CountNonzero(TrainOf(e)[u]) + CountNonzero(TestOf(e)[u])
                   = CountNonzero(heap[Src][u])

\* C1 witness: a completed split that withheld two ratings of one user and
\* left that user a rating in train.
C1_Witness ==
    \E e \in EvIds, u \in Users :
        /\ split_log[e].kind = "ok"
        /\ CountNonzero(TestOf(e)[u]) = 2
        /\ CountNonzero(TrainOf(e)[u]) = 1
        /\ \E i \in Items : TestOf(e)[u][i] = MaxRating

\* C5 (as claimed): a split of a table that has a user without any rating
\* completes, and that user's rows are all 0 in train and test.
C5_EmptyUserSplitCompletes ==
    \A e \in EvIds :
        (split_log[e].calls > 0 /\ \E u \in Users : CountNonzero(heap[Src][u]) = 0) =>
            /\ split_log[e].kind = "ok"
            /\ \A u \in Users : CountNonzero(heap[Src][u]) = 0 =>
                   CountNonzero(TrainOf(e)[u]) = 0 /\ CountNonzero(TestOf(e)[u]) = 0

\* C6: two Evaluators built from the same table with the same test_ratio and
\* random_state hold the same train and test tables once each has been split,
\* also when one was split once and the other twice (a second call withholds
\* nothing more).
C6_SplitDeterministic ==
    \A e1, e2 \in EvIds :
        (/\ split_log[e1].calls > 0
         /\ split_log[e2].calls > 0
         /\ evs[e1].test_ratio = evs[e2].test_ratio
         /\ evs[e1].random_state = evs[e2].random_state) =>
            TrainOf(e1) = TrainOf(e2) /\ TestOf(e1) = TestOf(e2)

\* C6 witness: same arguments, one Evaluator split once and the other twice,
\* with ratings withheld.
C6_Witness ==
    \E e1, e2 \in EvIds :
        /\ split_log[e1].calls = 1
        /\ split_log[e2].calls = 2
        /\ split_log[e1].kind = "ok"
        /\ evs[e1].test_ratio = evs[e2].test_ratio
        /\ evs[e1].random_state = evs[e2].random_state
        /\ \E u \in Users : CountNonzero(TestOf(e2)[u]) = 2

\* C2: no pair returned by recommend_user_based or recommend_item_based names
\* an item the user has rated in the table.
C2_NoRatedItemReturned ==
    IsRecommend =>
        \A k \in DOMAIN out.value : heap[Src][out.args[1]][out.value[k][1]] = 0

\* C2 witness: a call for a user with a rated item that returned an item.
C2_Witness ==
    /\ IsRecommend
    /\ Len(out.value) > 0
    /\ CountNonzero(heap[Src][out.args[1]]) > 0

\* C3 (as claimed): the returned list is in descending order of predicted
\* rating, equal ratings in ascending item order, and an item left out by the
\* truncation ranks after every item returned in that same order.
C3_TiesByAscendingItem ==
    IsRecommend =>
        LET pred == PredictedOfOut
            Before(i, j) == Greater(pred[i], pred[j]) \/ (pred[i] = pred[j] /\ i < j)
            cands == {i \in Items : heap[cf.user_item_matrix][out.args[1]][i] = 0}
        IN /\ \A k \in DOMAIN out.value :
                k + 1 \in DOMAIN out.value => Before(out.value[k][1], out.value[k + 1][1])
           /\ \A i \in ReturnedItems, j \in cands \ ReturnedItems : Before(i, j)

\* C3 (amended): the returned list is in non-increasing order of predicted
\* rating, each pair carries the predicted rating of its item, the list holds
\* min(top_n, number of unrated items) distinct items, and no item left out
\* by the truncation has a greater predicted rating than a returned one.
C3_SortedDescending ==
    IsRecommend =>
        LET pred == PredictedOfOut
            cands == {i \in Items : heap[cf.user_item_matrix][out.args[1]][i] = 0}
        IN /\ \A k \in DOMAIN out.value : out.value[k][2] = pred[out.value[k][1]]
           /\ \A k \in DOMAIN out.value :
                k + 1 \in DOMAIN out.value =>
                    ~Greater(out.value[k + 1][2], out.value[k][2])
           /\ Cardinality(ReturnedItems) = Len(out.value)
           /\ Len(out.value) = Min(out.args[2], Cardinality(cands))
           /\ \A i \in ReturnedItems, j \in cands \ ReturnedItems :
                ~Greater(pred[j], pred[i])

\* C3 witness: a list cut to one item by top_n, whose item has a greater
\* predicted rating than a candidate left out.
C3_Witness ==
    /\ IsRecommend
    /\ out.args[2] = 1
    /\ Len(out.value) = 1
    /\ \E j \in Items \ ReturnedItems :
          /\ heap[cf.user_item_matrix][out.args[1]][j] = 0
          /\ Greater(out.value[1][2], PredictedOfOut[j])

\* C4 (as claimed): a /recommendations request for a user that is not in the
\* table ends with an empty recommendation list, not with an error.
C4_AbsentUserGetsEmptyList ==
    (out.op = "recommendations" /\ out.args[1] \notin Users) =>
        out.kind = "ok" /\ out.value = <<>>

\* C8 (as claimed): compute_rmse with no nonzero cell in the test table ends
\* in a "not computable" outcome of its own, not in an exception of the
\* library and not in a number.
C8_EmptyMaskHandled ==
    (out.op = "compute_rmse" /\ Mask(TestOf(out.args[1])) = {}) =>
        out.kind = "not computable"

\* C7: for a model built on the Evaluator's train table, the frame
\* predict_all returns holds, for every user and every item the user has not
\* rated in train, the predicted rating the single-user call with
\* top_n = number of items returns for that item, and 0 for every item the
\* user has rated in train, which the single-user call leaves out.
C7_BatchAgreesWithSingleUser ==
    (/\ out.op = "predict_all"
     /\ out.kind = "ok"
     /\ cf.user_item_matrix = evs[out.args[1]].train_matrix) =>
        LET t == heap[cf.user_item_matrix]
        IN \A u \in Users :
             LET pred == IF out.args[2] = "user"
                         THEN UserBasedPredicted(t, cf.user_similarity, u)
                         ELSE ItemBasedPredicted(t, cf.item_similarity, u)
             IN \A recs \in TopMovies(pred, t[u], NumItems) :
                  \A i \in Items :
                     IF t[u][i] = 0
                     THEN \E k \in DOMAIN recs : recs[k] = <<i, out.value[u][i]>>
                     ELSE /\ out.value[u][i] = Zero
                          /\ \A k \in DOMAIN recs : recs[k][1] # i

\* C7 witness: a user-based predict_all after a split, on a model built on
\* the train table, with a nonzero prediction for an unrated cell.
C7_Witness ==
    /\ out.op = "predict_all"
    /\ out.kind = "ok"
    /\ out.args[2] = "user"
    /\ cf.user_item_matrix = evs[out.args[1]].train_matrix
    /\ split_log[out.args[1]].kind = "ok"
    /\ \E u \in Users, i \in Items : TrainOf(out.args[1])[u][i] = 0 /\ out.value[u][i] # Zero

\* C9: no step changes the contents of the table the caller passed in.
C9_SourceTableUnchanged == [][heap'[Src] = heap[Src]]_vars

\* C9 witness: the split has written to the Evaluator's tables, a model holds
\* both similarities and compute_rmse has run.
C9_Witness ==
    /\ out.op = "compute_rmse"
    /\ split_log[1].kind = "ok"
    /\ TrainOf(1) # heap[Src]
    /\ cf.user_similarity # None
    /\ cf.item_similarity # None

\* C10: a recommend_* or predict_all call that finds the similarity it needs
\* absent fills it in from the model's table; once present, a similarity is
\* changed by no step other than the compute_* call of that similarity,
\* whatever happens to the table.
C10_SimilarityCached ==
    [][/\ (cf.user_similarity # None /\ out'.op # "compute_user_similarity") =>
              cf'.user_similarity = cf.user_similarity
       /\ (cf.item_similarity # None /\ out'.op # "compute_item_similarity") =>
              cf'.item_similarity = cf.item_similarity
       /\ (/\ cf.user_similarity = None
           /\ \/ out'.op = "recommend_user_based"
              \/ (out'.op = "predict_all" /\ out'.args[2] = "user")) =>
              cf'.user_similarity = ComputeUserSimilarity(heap[cf.user_item_matrix])
       /\ (/\ cf.item_similarity = None
           /\ \/ out'.op = "recommend_item_based"
              \/ (out'.op = "predict_all" /\ out'.args[2] = "item")) =>
              cf'.item_similarity = ComputeItemSimilarity(heap[cf.user_item_matrix])
      ]_vars

\* C10 witness: a recommend_user_based or predict_all call answered from a
\* user similarity that no longer is the similarity of the model's table (the
\* table is the train table, split after the similarity was computed).
C10_Witness ==
    /\ out.op \in {"recommend_user_based", "predict_all"}
    /\ out.kind = "ok"
    /\ cf.user_item_matrix = TrainRef(1)
    /\ cf.user_similarity # None
    /\ cf.user_similarity # ComputeUserSimilarity(heap[cf.user_item_matrix])

====
